---- MODULE Spec2Model ----
(***************************************************************************)
(* Bar-trivia game server (backend/server.js): the games registry, the     *)
(* Game class, the socket.io event handlers, the disconnect handler, the   *)
(* REST game creation and the periodic cleanup, as one state machine.      *)
(* Node runs every handler to completion on one thread, so each handler    *)
(* is one atomic action.  A handler is an operator On... from the current  *)
(* state and the event's payload to its effect: the new registry, rooms    *)
(* and uuid source, the messages it sends in emission order, and whether   *)
(* an exception escaped it.  The action of the handler installs the        *)
(* effect; properties of replies and broadcasts are stated on the effect.  *)
(***************************************************************************)
EXTENDS Integers, Sequences, FiniteSets, TLC

(***************************************************************************)
(* Bounds of the model.                                                    *)
(***************************************************************************)
MaxUuid == 4        \* uuidv4() calls in one run of Spec
MaxSockets == 2     \* socket.io connections in one run of Spec
GameUuid == 5       \* uuidv4() calls in one run of SpecGame
GameSockets == 1    \* socket.io connections in one run of SpecGame
TeamsUuid == 5      \* uuidv4() calls in one run of SpecTeams
TeamsSockets == 1   \* socket.io connections in one run of SpecTeams
MaxAnswers == 2     \* answers logged per team
MaxCursor == 2      \* largest currentQuestionIndex explored
MaxNow == 1800      \* last clock value (ms)

(***************************************************************************)
(* Program constants.                                                      *)
(***************************************************************************)
PinBase == 1000             \* Math.floor(1000 + Math.random() * 9000)
PinSpan == 9000
DefaultTimeLimit == 30      \* question.timeLimit || 30
BasePoints == 100           \* points = 100
BonusPoints == 50           \* 50 * (1 - answerTime / ...)
MsPerSecond == 1000         \* question.timeLimit * 1000
NoIndex == -1               \* this.currentQuestionIndex = -1
NullTime == -1              \* this.questionStartTime = null (never read before it is set)

null == [null |-> TRUE]     \* the JavaScript null returned by getCurrentQuestion

(***************************************************************************)
(* Inputs.                                                                 *)
(***************************************************************************)
\* Math.random() ranges over [0,1): both ends of the PIN range.
generateGamePin == {PinBase, PinBase + PinSpan - 1}
Pins == generateGamePin
HostNames == {"Alex"}
TeamNames == {"Pandas", "Wolves"}
AnswerInputs == {0, 1}
TickSteps == {800, 1000}
\* question payloads of host:add-question; timeLimit 0 and category ""
\* stand for the optional fields being absent (both are falsy).
QuestionInputs ==
  { [text |-> "2+2?", options |-> <<"3", "4", "5", "6">>, correctAnswer |-> 1,
     timeLimit |-> 0, category |-> ""],
    [text |-> "2+2?", options |-> <<"3", "4", "5", "6">>, correctAnswer |-> 1,
     timeLimit |-> 1, category |-> "Math"] }

VARIABLES
  games,      \* the Map pin -> Game, as the sequence of its values in insertion order
  rooms,      \* socket.io rooms: room name -> set of socket ids
  connected,  \* socket ids of the live connections
  nextSocket, \* socket ids are fresh: the next one to hand out
  uuid,       \* uuidv4() values are fresh: the last one handed out
  now,        \* Date.now()
  crashed     \* an exception escaped a handler: the process is gone

vars == <<games, rooms, connected, nextSocket, uuid, now, crashed>>

(***************************************************************************)
(* Arithmetic.                                                             *)
(***************************************************************************)
Max(a, b) == IF a >= b THEN a ELSE b

\* floor(n / d) for any integers n, d with d # 0
FloorDiv(n, d) == IF d > 0 THEN n \div d ELSE (0 - n) \div (0 - d)

\* d divides n
Divides(d, n) == n = d * FloorDiv(n, d)

(***************************************************************************)
(* The Map API on sequences of records keyed by a field.                   *)
(***************************************************************************)
GameHas(gs, pin) == \E i \in 1..Len(gs) : gs[i].pin = pin
GameGet(gs, pin) == gs[CHOOSE i \in 1..Len(gs) : gs[i].pin = pin]
\* Map.prototype.set: an existing key keeps its position
\* mutant: set writes the value under every key
GameSet_EveryKey(gs, pin, g) ==
  IF GameHas(gs, pin)
  THEN [i \in 1..Len(gs) |-> [g EXCEPT !.pin = gs[i].pin]]
  ELSE Append(gs, g)

GameSet(gs, pin, g) ==
  IF GameHas(gs, pin)
  THEN [i \in 1..Len(gs) |-> IF gs[i].pin = pin THEN g ELSE gs[i]]
  ELSE Append(gs, g)

TeamHas(ts, teamId) == \E i \in 1..Len(ts) : ts[i].id = teamId
TeamGet(ts, teamId) == ts[CHOOSE i \in 1..Len(ts) : ts[i].id = teamId]
TeamSet(ts, teamId, t) ==
  IF TeamHas(ts, teamId)
  THEN [i \in 1..Len(ts) |-> IF ts[i].id = teamId THEN t ELSE ts[i]]
  ELSE Append(ts, t)

(***************************************************************************)
(* class Game                                                              *)
(***************************************************************************)
\* constructor(hostId, hostName); id and pin are the values uuidv4() and
\* generateGamePin() returned
Game(hostId, hostName, id, pin) ==
  [id |-> id, pin |-> pin, hostId |-> hostId, hostName |-> hostName,
   teams |-> <<>>, questions |-> <<>>, currentQuestionIndex |-> NoIndex,
   state |-> "lobby", questionStartTime |-> NullTime]

\* mutant: a team starts with a point
addTeam_HeadStart(g, teamId, teamName, socketId) ==
  [g EXCEPT !.teams = TeamSet(@, teamId,
     [id |-> teamId, name |-> teamName, socketId |-> socketId,
      score |-> 1, answers |-> <<>>])]

addTeam(g, teamId, teamName, socketId) ==
  [g EXCEPT !.teams = TeamSet(@, teamId,
     [id |-> teamId, name |-> teamName, socketId |-> socketId,
      score |-> 0, answers |-> <<>>])]

\* mutant: an unknown id removes the team that joined last
removeTeam_OrLast(g, teamId) ==
  [g EXCEPT !.teams =
     IF TeamHas(@, teamId) \/ Len(@) = 0
     THEN SelectSeq(@, LAMBDA t : t.id # teamId)
     ELSE SubSeq(@, 1, Len(@) - 1)]

removeTeam(g, teamId) ==
  [g EXCEPT !.teams = SelectSeq(@, LAMBDA t : t.id # teamId)]

\* mutant: the question is put in front of the list
addQuestion_Front(g, question, id) ==
  [g EXCEPT !.questions = <<
     [id |-> id, text |-> question.text, options |-> question.options,
      correctAnswer |-> question.correctAnswer,
      timeLimit |-> IF question.timeLimit # 0 THEN question.timeLimit
                    ELSE DefaultTimeLimit,
      category |-> IF question.category # "" THEN question.category
                   ELSE "General"] >> \o @]

addQuestion(g, question, id) ==
  [g EXCEPT !.questions = Append(@,
     [id |-> id, text |-> question.text, options |-> question.options,
      correctAnswer |-> question.correctAnswer,
      timeLimit |-> IF question.timeLimit # 0 THEN question.timeLimit
                    ELSE DefaultTimeLimit,
      category |-> IF question.category # "" THEN question.category
                   ELSE "General"])]

\* this.questions[this.currentQuestionIndex] is defined
HasCurrent(g) ==
  g.currentQuestionIndex >= 0 /\ g.currentQuestionIndex < Len(g.questions)

CurrentQuestion(g) == g.questions[g.currentQuestionIndex + 1]

\* mutant: the view is the stored question, correct index included
PublicView_Leaky(question, idx, total) ==
  [id |-> question.id, text |-> question.text, options |-> question.options,
   correctAnswer |-> question.correctAnswer,
   timeLimit |-> question.timeLimit, category |-> question.category,
   questionNumber |-> idx + 1, totalQuestions |-> total]

PublicView(question, idx, total) ==
  [id |-> question.id, text |-> question.text, options |-> question.options,
   timeLimit |-> question.timeLimit, category |-> question.category,
   questionNumber |-> idx + 1, totalQuestions |-> total]

getCurrentQuestion(g) ==
  IF g.currentQuestionIndex >= 0 /\ g.currentQuestionIndex < Len(g.questions)
  THEN PublicView(CurrentQuestion(g), g.currentQuestionIndex, Len(g.questions))
  ELSE null

(***************************************************************************)
(* Math.max(0, Math.floor(50 * (1 - answerTime / (timeLimit * 1000))))     *)
(* in IEEE-754 double arithmetic.  With m = 50*answerTime/(timeLimit*1000) *)
(* the real value is 50 - m.  When m is not an integer the rounding error  *)
(* (below 1e-13) cannot move the value across an integer.  When m is an    *)
(* integer, the double 1 - m/50 times 50 rounds to 50 - m except for the   *)
(* m of FloatShortfall, where it falls just below it (1 - 0.9 is           *)
(* 0.09999999999999998, and 50 times that is 4.999999999999999), so the    *)
(* floor is one less.  The table covers -56 <= m; m > 50 gives 0 anyway.   *)
(***************************************************************************)
FloatShortfall == {-41, -8, 17, 28, 34, 39, 40, 45, 46}

\* mutant: the bonus without Math.max(0, ...)
timeBonus_NoClamp(answerTime, timeLimit) ==
  BonusPoints
    + FloorDiv(0 - BonusPoints * answerTime, timeLimit * MsPerSecond)

timeBonus(answerTime, timeLimit) ==
  LET den == timeLimit * MsPerSecond
      num == BonusPoints * answerTime
      exact == BonusPoints + FloorDiv(0 - num, den)        \* floor(50 - m)
      short == Divides(den, num) /\ FloorDiv(num, den) \in FloatShortfall
  IN  Max(0, IF short THEN exact - 1 ELSE exact)

\* submitAnswer(teamId, answer) at Date.now() = t; ok = FALSE is `return false`
submitAnswer(g, teamId, answer, t) ==
  IF ~TeamHas(g.teams, teamId) THEN [ok |-> FALSE, game |-> g]
  ELSE IF ~HasCurrent(g) THEN [ok |-> FALSE, game |-> g]
  ELSE
    LET team == TeamGet(g.teams, teamId)
        question == CurrentQuestion(g)
        answerTime == t - g.questionStartTime
        isCorrect == answer = question.correctAnswer
        points == IF isCorrect
                  THEN BasePoints + timeBonus(answerTime, question.timeLimit)
                  ELSE 0
        logged == [questionId |-> question.id, answer |-> answer,
                   isCorrect |-> isCorrect, points |-> points,
                   time |-> answerTime]
        team2 == [team EXCEPT !.answers = Append(@, logged),
                              !.score = @ + points]
    IN  [ok |-> TRUE,
         game |-> [g EXCEPT !.teams = TeamSet(@, teamId, team2)],
         isCorrect |-> isCorrect, points |-> points]

\* Array.prototype.sort with (a, b) => b.score - a.score: stable, descending
RECURSIVE SortByScore(_)
SortByScore(s) ==
  IF Len(s) <= 1 THEN s
  ELSE LET rest == SortByScore(Tail(s))
           x == Head(s)
           \* x goes after the entries that score more and before the rest
           k == CHOOSE n \in 0..Len(rest) :
                  /\ \A i \in 1..n : rest[i].score > x.score
                  /\ (n < Len(rest) => rest[n + 1].score <= x.score)
       IN  SubSeq(rest, 1, k) \o <<x>> \o SubSeq(rest, k + 1, Len(rest))

\* mutant: the entries are left in join order
getLeaderboard_JoinOrder(g) ==
  [i \in 1..Len(g.teams) |->
     [name |-> g.teams[i].name, score |-> g.teams[i].score,
      answersCount |-> Len(g.teams[i].answers)]]

getLeaderboard(g) ==
  SortByScore([i \in 1..Len(g.teams) |->
     [name |-> g.teams[i].name, score |-> g.teams[i].score,
      answersCount |-> Len(g.teams[i].answers)]])

\* nextQuestion() at Date.now() = t; its return value is HasMore of the result
nextQuestion(g, t) ==
  [g EXCEPT !.currentQuestionIndex = @ + 1, !.state = "question",
            !.questionStartTime = t]
\* mutant: one question too many
HasMore_OffByOne(g) == g.currentQuestionIndex <= Len(g.questions)
HasMore(g) == g.currentQuestionIndex < Len(g.questions)

\* revealAnswer(): the state is assigned before question.correctAnswer is
\* read, which throws a TypeError when there is no current question
revealAnswer(g) == [g EXCEPT !.state = "answer-reveal"]
RevealThrows(g) == ~HasCurrent(g)
\* mutant: the leaderboard of the reveal misses the scores
RevealResult_NoScores(g) ==
  [correctAnswer |-> CurrentQuestion(g).correctAnswer,
   leaderboard |-> [k \in 1..Len(g.teams) |->
                      [getLeaderboard(g)[k] EXCEPT !.score = 0]]]

RevealResult(g) ==
  [correctAnswer |-> CurrentQuestion(g).correctAnswer,
   leaderboard |-> getLeaderboard(g)]

endGame(g) == [g EXCEPT !.state = "ended"]
EndResult(g) ==
  [finalLeaderboard |-> getLeaderboard(g), totalQuestions |-> Len(g.questions)]

(***************************************************************************)
(* Messages.  A room is <<"game", pin>> or <<"host", pin>>; rm is the room *)
(* membership at the time of the emit.                                     *)
(***************************************************************************)
Rooms == {"game", "host"} \X Pins

\* io.to(room).emit(event, data)
Emit(rm, room, event, data) ==
  [kind |-> "emit", room |-> room, to |-> rm[room], event |-> event,
   data |-> data]

\* callback(data) of the handler of `event` on `socket`
Ack(socket, event, data) ==
  [kind |-> "ack", room |-> <<"socket", socket>>, to |-> {socket},
   event |-> event, data |-> data]

\* res.json(data)
Http(route, data) ==
  [kind |-> "http", room |-> <<"http", 0>>, to |-> {}, event |-> route,
   data |-> data]

Failure(error) == [success |-> FALSE, error |-> error]

\* socket.join(room)
Join(rm, socket, room) == [rm EXCEPT ![room] = @ \cup {socket}]

\* the effect of a handler
Effect(gs, rm, id, msgs, threw) ==
  [games |-> gs, rooms |-> rm, uuid |-> id, out |-> msgs, threw |-> threw]

\* a handler that only replies
Reply(socket, event, data) ==
  Effect(games, rooms, uuid, <<Ack(socket, event, data)>>, FALSE)

(***************************************************************************)
(* The guards of the handlers.                                             *)
(***************************************************************************)
\* mutants: the guard left out
AlreadyStarted_Never(g) == FALSE
NoQuestions_Never(g) == FALSE

\* if (game.state !== 'lobby')                      in team:join
AlreadyStarted(g) == g.state # "lobby"
\* if (game.questions.length === 0)                 in host:start-game
NoQuestions(g) == Len(g.questions) = 0
\* mutant: the guard left out
NotAcceptingAnswers_Never(g) == FALSE

\* if (game.state !== 'question')                   in team:submit-answer
NotAcceptingAnswers(g) == g.state # "question"

(***************************************************************************)
(* socket.on('host:create-game'); pin is what generateGamePin() returns    *)
(***************************************************************************)
OnHostCreateGame(socket, hostName, pin) ==
  LET hostId == uuid + 1
      game == Game(hostId, hostName, uuid + 2, pin)
  IN  Effect(GameSet(games, game.pin, game),
             Join(Join(rooms, socket, <<"game", game.pin>>),
                  socket, <<"host", game.pin>>),
             uuid + 2,
             <<Ack(socket, "host:create-game",
                   [success |-> TRUE, gameId |-> game.id, pin |-> game.pin,
                    hostId |-> hostId])>>,
             FALSE)

(***************************************************************************)
(* app.post('/api/games/create')                                           *)
(***************************************************************************)
OnRestCreateGame(hostName, pin) ==
  LET hostId == uuid + 1
      game == Game(hostId, hostName, uuid + 2, pin)
  IN  Effect(GameSet(games, game.pin, game), rooms, uuid + 2,
             <<Http("POST /api/games/create",
                    [gameId |-> game.id, pin |-> game.pin, hostId |-> hostId])>>,
             FALSE)

(***************************************************************************)
(* socket.on('team:join')                                                  *)
(***************************************************************************)
OnTeamJoin(socket, pin, teamName) ==
  IF ~GameHas(games, pin)
  THEN Reply(socket, "team:join", Failure("Game not found"))
  ELSE IF AlreadyStarted(GameGet(games, pin))
  THEN Reply(socket, "team:join", Failure("Game already started"))
  ELSE
    LET teamId == uuid + 1
        game == addTeam(GameGet(games, pin), teamId, teamName, socket)
        rm == Join(rooms, socket, <<"game", pin>>)
    IN  Effect(GameSet(games, pin, game), rm, uuid + 1,
               <<Emit(rm, <<"host", pin>>, "team:joined",
                      [teamId |-> teamId, teamName |-> teamName,
                       totalTeams |-> Len(game.teams)]),
                 Ack(socket, "team:join",
                     [success |-> TRUE, teamId |-> teamId,
                      teamName |-> teamName, gameState |-> game.state])>>,
               FALSE)

(***************************************************************************)
(* socket.on('host:add-question')                                          *)
(***************************************************************************)
OnHostAddQuestion(socket, pin, question) ==
  IF ~GameHas(games, pin)
  THEN Reply(socket, "host:add-question", Failure("Game not found"))
  ELSE
    LET game == addQuestion(GameGet(games, pin), question, uuid + 1)
    IN  Effect(GameSet(games, pin, game), rooms, uuid + 1,
               <<Ack(socket, "host:add-question",
                     [success |-> TRUE,
                      totalQuestions |-> Len(game.questions)])>>,
               FALSE)

(***************************************************************************)
(* socket.on('host:start-game')                                            *)
(***************************************************************************)
\* mutant: the callback runs before the emit
OnHostStartGame_AckFirst(socket, pin) ==
  IF ~GameHas(games, pin)
  THEN Reply(socket, "host:start-game", Failure("Game not found"))
  ELSE IF NoQuestions(GameGet(games, pin))
  THEN Reply(socket, "host:start-game", Failure("No questions added"))
  ELSE
    LET game == nextQuestion(GameGet(games, pin), now)
    IN  Effect(GameSet(games, pin, game), rooms, uuid,
               <<Ack(socket, "host:start-game", [success |-> TRUE]),
                 Emit(rooms, <<"game", pin>>, "game:started",
                      [question |-> getCurrentQuestion(game)])>>,
               FALSE)

OnHostStartGame(socket, pin) ==
  IF ~GameHas(games, pin)
  THEN Reply(socket, "host:start-game", Failure("Game not found"))
  ELSE IF NoQuestions(GameGet(games, pin))
  THEN Reply(socket, "host:start-game", Failure("No questions added"))
  ELSE
    LET game == nextQuestion(GameGet(games, pin), now)
        question == getCurrentQuestion(game)
    IN  Effect(GameSet(games, pin, game), rooms, uuid,
               <<Emit(rooms, <<"game", pin>>, "game:started",
                      [question |-> question]),
                 Ack(socket, "host:start-game", [success |-> TRUE])>>,
               FALSE)

(***************************************************************************)
(* socket.on('host:next-question')                                         *)
(***************************************************************************)
OnHostNextQuestion(socket, pin) ==
  IF ~GameHas(games, pin)
  THEN Reply(socket, "host:next-question", Failure("Game not found"))
  ELSE
    LET game == nextQuestion(GameGet(games, pin), now)
    IN  IF ~HasMore(game)
        THEN Effect(GameSet(games, pin, endGame(game)), rooms, uuid,
                    <<Emit(rooms, <<"game", pin>>, "game:ended",
                           EndResult(endGame(game))),
                      Ack(socket, "host:next-question",
                          [success |-> TRUE, ended |-> TRUE])>>,
                    FALSE)
        ELSE Effect(GameSet(games, pin, game), rooms, uuid,
                    <<Emit(rooms, <<"game", pin>>, "question:new",
                           [question |-> getCurrentQuestion(game)]),
                      Ack(socket, "host:next-question",
                          [success |-> TRUE,
                           question |-> getCurrentQuestion(game)])>>,
                    FALSE)

(***************************************************************************)
(* socket.on('team:submit-answer')                                         *)
(***************************************************************************)
\* mutant: the result of submitAnswer is not looked at
OnTeamSubmitAnswer_IgnoresResult(socket, pin, teamId, answer) ==
  IF ~GameHas(games, pin)
  THEN Reply(socket, "team:submit-answer", Failure("Game not found"))
  ELSE IF NotAcceptingAnswers(GameGet(games, pin))
  THEN Reply(socket, "team:submit-answer", Failure("Not accepting answers"))
  ELSE
    LET result == submitAnswer(GameGet(games, pin), teamId, answer, now)
    IN  Effect(GameSet(games, pin, result.game), rooms, uuid,
               <<Emit(rooms, <<"host", pin>>, "answer:submitted",
                      [teamId |-> teamId, answered |-> TRUE]),
                 Ack(socket, "team:submit-answer",
                     [success |-> TRUE, submitted |-> TRUE])>>,
               FALSE)

OnTeamSubmitAnswer(socket, pin, teamId, answer) ==
  IF ~GameHas(games, pin)
  THEN Reply(socket, "team:submit-answer", Failure("Game not found"))
  ELSE IF NotAcceptingAnswers(GameGet(games, pin))
  THEN Reply(socket, "team:submit-answer", Failure("Not accepting answers"))
  ELSE
    LET result == submitAnswer(GameGet(games, pin), teamId, answer, now)
    IN  IF ~result.ok
        THEN Reply(socket, "team:submit-answer",
                   Failure("Invalid team or question"))
        ELSE Effect(GameSet(games, pin, result.game), rooms, uuid,
                    <<Emit(rooms, <<"host", pin>>, "answer:submitted",
                           [teamId |-> teamId, answered |-> TRUE]),
                      Ack(socket, "team:submit-answer",
                          [success |-> TRUE, submitted |-> TRUE])>>,
                    FALSE)

(***************************************************************************)
(* socket.on('host:reveal-answer')                                         *)
(***************************************************************************)
OnHostRevealAnswer(socket, pin) ==
  IF ~GameHas(games, pin)
  THEN Reply(socket, "host:reveal-answer", Failure("Game not found"))
  ELSE
    LET game == revealAnswer(GameGet(games, pin))
    IN  IF RevealThrows(game)
        THEN \* the TypeError leaves the handler: nothing is sent
             Effect(GameSet(games, pin, game), rooms, uuid, <<>>, TRUE)
        ELSE Effect(GameSet(games, pin, game), rooms, uuid,
                    <<Emit(rooms, <<"game", pin>>, "answer:revealed",
                           RevealResult(game)),
                      Ack(socket, "host:reveal-answer",
                          [success |-> TRUE,
                           correctAnswer |-> RevealResult(game).correctAnswer,
                           leaderboard |-> RevealResult(game).leaderboard])>>,
                    FALSE)

(***************************************************************************)
(* socket.on('game:get-leaderboard')                                       *)
(***************************************************************************)
\* mutant: no lookup of the PIN
OnGetLeaderboard_NoLookup(socket, pin) ==
  Reply(socket, "game:get-leaderboard",
        [success |-> TRUE,
         leaderboard |-> IF GameHas(games, pin)
                         THEN getLeaderboard(GameGet(games, pin)) ELSE <<>>])

\* mutant: the lookup restarts the clock of the question
OnGetLeaderboard_Stamps(socket, pin) ==
  IF ~GameHas(games, pin)
  THEN Reply(socket, "game:get-leaderboard", Failure("Game not found"))
  ELSE Effect(GameSet(games, pin,
                      [GameGet(games, pin) EXCEPT !.questionStartTime = now + 1]),
              rooms, uuid,
              <<Ack(socket, "game:get-leaderboard",
                    [success |-> TRUE,
                     leaderboard |-> getLeaderboard(GameGet(games, pin))])>>,
              FALSE)

OnGetLeaderboard(socket, pin) ==
  IF ~GameHas(games, pin)
  THEN Reply(socket, "game:get-leaderboard", Failure("Game not found"))
  ELSE Reply(socket, "game:get-leaderboard",
             [success |-> TRUE,
              leaderboard |-> getLeaderboard(GameGet(games, pin))])

(***************************************************************************)
(* socket.on('disconnect').  socket.io has taken the socket out of all its *)
(* rooms before the handler runs.                                          *)
(***************************************************************************)
RECURSIVE RemoveTeams(_, _)
RemoveTeams(g, teamIds) ==
  IF Len(teamIds) = 0 THEN g
  ELSE RemoveTeams(removeTeam(g, Head(teamIds)), Tail(teamIds))

\* game.teams.forEach of the handler on one game: the game afterwards and
\* the team:left messages, the k-th sent after the k-th removal
\* mutant: totalTeams is read before the team is removed
DisconnectGame_CountBefore(g, socketId, rm) ==
  LET owned == SelectSeq(g.teams, LAMBDA t : t.socketId = socketId)
      ids == [k \in 1..Len(owned) |-> owned[k].id]
  IN  [game |-> RemoveTeams(g, ids),
       msgs |-> [k \in 1..Len(owned) |->
                   Emit(rm, <<"host", g.pin>>, "team:left",
                        [teamId |-> owned[k].id, teamName |-> owned[k].name,
                         totalTeams |-> Len(g.teams) - k + 1])]]

DisconnectGame(g, socketId, rm) ==
  LET owned == SelectSeq(g.teams, LAMBDA t : t.socketId = socketId)
      ids == [k \in 1..Len(owned) |-> owned[k].id]
  IN  [game |-> RemoveTeams(g, ids),
       msgs |-> [k \in 1..Len(owned) |->
                   Emit(rm, <<"host", g.pin>>, "team:left",
                        [teamId |-> owned[k].id, teamName |-> owned[k].name,
                         totalTeams |-> Len(g.teams) - k])]]

RECURSIVE Flatten(_)
Flatten(ss) == IF Len(ss) = 0 THEN <<>> ELSE Head(ss) \o Flatten(Tail(ss))

\* mutant: the empty lobby game is kept
OnDisconnect_KeepsEmpty(socket) ==
  LET rm == [r \in Rooms |-> rooms[r] \ {socket}]
      done == [i \in 1..Len(games) |-> DisconnectGame(games[i], socket, rm)]
  IN  Effect([i \in 1..Len(games) |-> done[i].game],
             rm, uuid, Flatten([i \in 1..Len(games) |-> done[i].msgs]), FALSE)

OnDisconnect(socket) ==
  LET rm == [r \in Rooms |-> rooms[r] \ {socket}]
      done == [i \in 1..Len(games) |-> DisconnectGame(games[i], socket, rm)]
      after == [i \in 1..Len(games) |-> done[i].game]
  IN  Effect(SelectSeq(after, LAMBDA g :
                 ~(Len(g.teams) = 0 /\ g.state = "lobby")),
             rm, uuid, Flatten([i \in 1..Len(games) |-> done[i].msgs]), FALSE)

(***************************************************************************)
(* setInterval(..., 30 * 60 * 1000): the periodic cleanup                  *)
(***************************************************************************)
\* mutant: the sweep takes the lobby games too
OnCleanup_AlsoLobby ==
  Effect(SelectSeq(games, LAMBDA g : g.state \notin {"ended", "lobby"}),
         rooms, uuid, <<>>, FALSE)

OnCleanup ==
  Effect(SelectSeq(games, LAMBDA g : g.state # "ended"), rooms, uuid, <<>>,
         FALSE)

(***************************************************************************)
(* Initial state: the module has been loaded, nobody is connected.         *)
(***************************************************************************)
Init ==
  /\ games = <<>>
  /\ rooms = [r \in Rooms |-> {}]
  /\ connected = {}
  /\ nextSocket = 1
  /\ uuid = 0
  /\ now = 0
  /\ crashed = FALSE

(***************************************************************************)
(* Actions.  Handle installs the effect of a handler; it is enabled while  *)
(* the process is up and the effect stays within the bounds of the model:  *)
(* cap bounds the uuids handed out.                                        *)
(***************************************************************************)
WithinBounds(gs) ==
  \A i \in 1..Len(gs) :
    /\ gs[i].currentQuestionIndex <= MaxCursor
    /\ \A j \in 1..Len(gs[i].teams) :
         Len(gs[i].teams[j].answers) <= MaxAnswers

Handle(effect) ==
  /\ ~crashed
  /\ WithinBounds(effect.games)
  /\ games' = effect.games
  /\ rooms' = effect.rooms
  /\ uuid' = effect.uuid
  /\ crashed' = effect.threw

\* io.on('connection'): at most `sockets` connections are ever opened
Connect(sockets) ==
  /\ ~crashed
  /\ nextSocket <= sockets
  /\ connected' = connected \cup {nextSocket}
  /\ nextSocket' = nextSocket + 1
  /\ UNCHANGED <<games, rooms, uuid, now, crashed>>

\* the clock advances by d ms
Tick(d) ==
  /\ ~crashed
  /\ d > 0
  /\ now + d <= MaxNow
  /\ now' = now + d
  /\ UNCHANGED <<games, rooms, connected, nextSocket, uuid, crashed>>

HostCreateGame(socket, hostName, pin, cap) ==
  /\ socket \in connected
  /\ uuid + 2 <= cap
  /\ Handle(OnHostCreateGame(socket, hostName, pin))
  /\ UNCHANGED <<connected, nextSocket, now>>

RestCreateGame(hostName, pin, cap) ==
  /\ uuid + 2 <= cap
  /\ Handle(OnRestCreateGame(hostName, pin))
  /\ UNCHANGED <<connected, nextSocket, now>>

TeamJoin(socket, pin, teamName, cap) ==
  /\ socket \in connected
  /\ uuid + 1 <= cap
  /\ Handle(OnTeamJoin(socket, pin, teamName))
  /\ UNCHANGED <<connected, nextSocket, now>>

HostAddQuestion(socket, pin, question, cap) ==
  /\ socket \in connected
  /\ uuid + 1 <= cap
  /\ Handle(OnHostAddQuestion(socket, pin, question))
  /\ UNCHANGED <<connected, nextSocket, now>>

HostStartGame(socket, pin) ==
  /\ socket \in connected
  /\ Handle(OnHostStartGame(socket, pin))
  /\ UNCHANGED <<connected, nextSocket, now>>

HostNextQuestion(socket, pin) ==
  /\ socket \in connected
  /\ Handle(OnHostNextQuestion(socket, pin))
  /\ UNCHANGED <<connected, nextSocket, now>>

TeamSubmitAnswer(socket, pin, teamId, answer) ==
  /\ socket \in connected
  /\ Handle(OnTeamSubmitAnswer(socket, pin, teamId, answer))
  /\ UNCHANGED <<connected, nextSocket, now>>

HostRevealAnswer(socket, pin) ==
  /\ socket \in connected
  /\ Handle(OnHostRevealAnswer(socket, pin))
  /\ UNCHANGED <<connected, nextSocket, now>>

GetLeaderboard(socket, pin) ==
  /\ socket \in connected
  /\ Handle(OnGetLeaderboard(socket, pin))
  /\ UNCHANGED <<connected, nextSocket, now>>

Disconnect(socket) ==
  /\ socket \in connected
  /\ Handle(OnDisconnect(socket))
  /\ connected' = connected \ {socket}
  /\ UNCHANGED <<nextSocket, now>>

Janitor ==
  /\ Handle(OnCleanup)
  /\ UNCHANGED <<connected, nextSocket, now>>

(***************************************************************************)
(* Spec: the whole server, two PINs and two connections, a coarse clock.   *)
(***************************************************************************)
Next ==
  \/ Connect(MaxSockets)
  \/ Tick(MaxNow)
  \/ \E s \in connected, h \in HostNames, p \in generateGamePin :
       HostCreateGame(s, h, p, MaxUuid)
  \/ \E h \in HostNames, p \in generateGamePin : RestCreateGame(h, p, MaxUuid)
  \/ \E s \in connected, p \in Pins, n \in TeamNames : TeamJoin(s, p, n, MaxUuid)
  \/ \E s \in connected, p \in Pins, q \in QuestionInputs :
       HostAddQuestion(s, p, q, MaxUuid)
  \/ \E s \in connected, p \in Pins : HostStartGame(s, p)
  \/ \E s \in connected, p \in Pins : HostNextQuestion(s, p)
  \/ \E s \in connected, p \in Pins, t \in 1..uuid, a \in AnswerInputs :
       TeamSubmitAnswer(s, p, t, a)
  \/ \E s \in connected, p \in Pins : HostRevealAnswer(s, p)
  \/ \E s \in connected, p \in Pins : GetLeaderboard(s, p)
  \/ \E s \in connected : Disconnect(s)
  \/ Janitor

Spec == Init /\ [][Next]_vars

(***************************************************************************)
(* SpecGame: one game played by one connection (host and teams alike) on   *)
(* one PIN, with a clock fine enough for the scoring: a question can be    *)
(* answered 0, 200, 800, 1000, 1600 or 1800 ms after its activation.       *)
(***************************************************************************)
GamePin == PinBase
GameTeamNames == {"Pandas"}

NextGame ==
  \/ Connect(GameSockets)
  \/ \E d \in TickSteps : Tick(d)
  \/ \E s \in connected, h \in HostNames : HostCreateGame(s, h, GamePin, GameUuid)
  \/ \E h \in HostNames : RestCreateGame(h, GamePin, GameUuid)
  \/ \E s \in connected, n \in GameTeamNames : TeamJoin(s, GamePin, n, GameUuid)
  \/ \E s \in connected, q \in QuestionInputs :
       HostAddQuestion(s, GamePin, q, GameUuid)
  \/ \E s \in connected : HostStartGame(s, GamePin)
  \/ \E s \in connected : HostNextQuestion(s, GamePin)
  \/ \E s \in connected, t \in 1..uuid, a \in AnswerInputs :
       TeamSubmitAnswer(s, GamePin, t, a)
  \/ \E s \in connected : HostRevealAnswer(s, GamePin)
  \/ \E s \in connected : GetLeaderboard(s, GamePin)
  \/ \E s \in connected : Disconnect(s)
  \/ Janitor

SpecGame == Init /\ [][NextGame]_vars

(***************************************************************************)
(* SpecTeams: one game on one PIN with several teams (all on one           *)
(* connection), a coarse clock, and question payloads whose timeLimit may  *)
(* be negative: addQuestion stores any truthy timeLimit as it is.          *)
(***************************************************************************)
SignedQuestionInputs ==
  { [text |-> "2+2?", options |-> <<"3", "4", "5", "6">>, correctAnswer |-> 1,
     timeLimit |-> 0, category |-> ""],
    [text |-> "2+2?", options |-> <<"3", "4", "5", "6">>, correctAnswer |-> 1,
     timeLimit |-> 0 - DefaultTimeLimit, category |-> "Math"] }

NextTeams ==
  \/ Connect(TeamsSockets)
  \/ Tick(MaxNow)
  \/ \E s \in connected, h \in HostNames : HostCreateGame(s, h, GamePin, TeamsUuid)
  \/ \E h \in HostNames : RestCreateGame(h, GamePin, TeamsUuid)
  \/ \E s \in connected, n \in TeamNames : TeamJoin(s, GamePin, n, TeamsUuid)
  \/ \E s \in connected, q \in SignedQuestionInputs :
       HostAddQuestion(s, GamePin, q, TeamsUuid)
  \/ \E s \in connected : HostStartGame(s, GamePin)
  \/ \E s \in connected : HostNextQuestion(s, GamePin)
  \/ \E s \in connected, t \in 1..uuid, a \in AnswerInputs :
       TeamSubmitAnswer(s, GamePin, t, a)
  \/ \E s \in connected : HostRevealAnswer(s, GamePin)
  \/ \E s \in connected : GetLeaderboard(s, GamePin)
  \/ \E s \in connected : Disconnect(s)
  \/ Janitor

SpecTeams == Init /\ [][NextTeams]_vars

(***************************************************************************)
(* SpecLive: Spec with the periodic cleanup kept running.  setInterval     *)
(* fires every 30 minutes for as long as the process is up, so a sweep     *)
(* that would change the registry is not put off forever.  Nothing is      *)
(* assumed of the clients: they may send any event or none.                *)
(***************************************************************************)
SpecLive == Init /\ [][Next]_vars /\ WF_vars(Janitor)

(***************************************************************************)
(* Vocabulary of the properties.                                           *)
(***************************************************************************)
TeamIds(g) == {g.teams[j].id : j \in 1..Len(g.teams)}

\* the session games[i] is still registered, under its PIN, in gs
Survives(g, gs) == GameHas(gs, g.pin) /\ GameGet(gs, g.pin).id = g.id

\* every effect a socket.io event can have in the current state satisfies P
AllEventEffects(P(_)) ==
  \A s \in connected, p \in Pins :
    /\ \A h \in HostNames : P(OnHostCreateGame(s, h, p))
    /\ \A n \in TeamNames : P(OnTeamJoin(s, p, n))
    /\ \A q \in QuestionInputs : P(OnHostAddQuestion(s, p, q))
    /\ P(OnHostStartGame(s, p))
    /\ P(OnHostNextQuestion(s, p))
    /\ \A t \in 0..uuid, a \in AnswerInputs : P(OnTeamSubmitAnswer(s, p, t, a))
    /\ P(OnHostRevealAnswer(s, p))
    /\ P(OnGetLeaderboard(s, p))
    /\ P(OnDisconnect(s))

(***************************************************************************)
(* C1.  Creating a session never replaces or removes a session that is in  *)
(* the registry: across every step, a PIN that is registered before and    *)
(* after the step names the same session.                                  *)
(***************************************************************************)
C1_CreateKeepsSessions ==
  [][\A i \in 1..Len(games) :
       GameHas(games', games[i].pin) => Survives(games[i], games')]_vars

(***************************************************************************)
(* C2.  In every reachable state a session is in lobby iff its question    *)
(* cursor is -1.                                                           *)
(***************************************************************************)
C2_LobbyIffNoCursor ==
  \A i \in 1..Len(games) :
    games[i].state = "lobby" <=> games[i].currentQuestionIndex = NoIndex

(***************************************************************************)
(* C3.  ended is terminal: a step taken while a session is ended leaves    *)
(* its state, its set of teams and every team's score as they were, for as *)
(* long as the session is registered.                                      *)
(***************************************************************************)
C3_EndedIsTerminal ==
  [][\A i \in 1..Len(games) :
       (games[i].state = "ended" /\ Survives(games[i], games'))
       => LET after == GameGet(games', games[i].pin)
          IN  /\ after.state = "ended"
              /\ TeamIds(after) = TeamIds(games[i])
              /\ \A j \in 1..Len(after.teams) :
                   after.teams[j].score
                     = TeamGet(games[i].teams, after.teams[j].id).score]_vars

(***************************************************************************)
(* C4.  First submission wins: a team's score is the sum of the points of  *)
(* its first answer to each question; later answers to the same question   *)
(* add nothing.                                                            *)
(***************************************************************************)
IsFirstAnswer(answers, k) ==
  \A j \in 1..(k - 1) : answers[j].questionId # answers[k].questionId

RECURSIVE FirstAnswerPoints(_, _)
FirstAnswerPoints(answers, k) ==
  IF k = 0 THEN 0
  ELSE FirstAnswerPoints(answers, k - 1)
       + (IF IsFirstAnswer(answers, k) THEN answers[k].points ELSE 0)

C4_FirstSubmissionWins ==
  \A i \in 1..Len(games) : \A j \in 1..Len(games[i].teams) :
    LET team == games[i].teams[j]
    IN  team.score = FirstAnswerPoints(team.answers, Len(team.answers))

(***************************************************************************)
(* C5.  Scoring formula: an answer is awarded 0 points when its option     *)
(* differs from the question's correct index and                           *)
(* 100 + max(0, floor(50 * (1 - e / (L*1000)))) points when it equals it,  *)
(* where e is the time since the activation of the current question:       *)
(* start-game and next-question stamp the activation, and a submission is  *)
(* logged with the time elapsed since that stamp.                          *)
(***************************************************************************)
\* max(0, floor(50 * (1 - e / (L*1000)))) over the rationals
ExactBonus(e, L) ==
  Max(0, FloorDiv(BonusPoints * (L * MsPerSecond - e), L * MsPerSecond))

QuestionById(g, id) ==
  g.questions[CHOOSE k \in 1..Len(g.questions) : g.questions[k].id = id]

LastAnswer(team) == team.answers[Len(team.answers)]

\* the reply of the effect reports success
Succeeds(e) == Len(e.out) > 0 /\ e.out[Len(e.out)].data.success

C5_ScoringFormula ==
  /\ \A i \in 1..Len(games) : \A j \in 1..Len(games[i].teams) :
       \A k \in 1..Len(games[i].teams[j].answers) :
         LET a == games[i].teams[j].answers[k]
             q == QuestionById(games[i], a.questionId)
         IN  a.points = IF a.answer = q.correctAnswer
                        THEN BasePoints + ExactBonus(a.time, q.timeLimit)
                        ELSE 0
  /\ \A s \in connected, p \in Pins :
       GameHas(games, p) =>
         /\ Succeeds(OnHostStartGame(s, p)) =>
              GameGet(OnHostStartGame(s, p).games, p).questionStartTime = now
         /\ GameGet(OnHostNextQuestion(s, p).games, p).questionStartTime = now
         /\ \A t \in TeamIds(GameGet(games, p)), a \in AnswerInputs :
              LET e == OnTeamSubmitAnswer(s, p, t, a)
              IN  Succeeds(e) =>
                    LastAnswer(TeamGet(GameGet(e.games, p).teams, t)).time
                      = now - GameGet(games, p).questionStartTime

Discloses(data) ==
  \/ "correctAnswer" \in DOMAIN data
  \/ "isCorrect" \in DOMAIN data
  \/ "question" \in DOMAIN data /\ "correctAnswer" \in DOMAIN data.question
  \/ "leaderboard" \in DOMAIN data
       /\ \E k \in 1..Len(data.leaderboard) :
            "correctAnswer" \in DOMAIN data.leaderboard[k]
  \/ "finalLeaderboard" \in DOMAIN data
       /\ \E k \in 1..Len(data.finalLeaderboard) :
            "correctAnswer" \in DOMAIN data.finalLeaderboard[k]

IsReveal(m) ==
  \/ m.kind = "emit" /\ m.event = "answer:revealed"
  \/ m.kind = "ack" /\ m.event = "host:reveal-answer"

NoDisclosure(e) ==
  \A k \in 1..Len(e.out) : ~IsReveal(e.out[k]) => ~Discloses(e.out[k].data)

C7_CorrectAnswerPrivate ==
  /\ AllEventEffects(NoDisclosure)
  /\ \A h \in HostNames, p \in Pins : NoDisclosure(OnRestCreateGame(h, p))
  /\ \A s \in connected, p \in Pins, t \in 0..uuid :
       \A a, b \in AnswerInputs :
         OnTeamSubmitAnswer(s, p, t, a).out = OnTeamSubmitAnswer(s, p, t, b).out

\* a question is on: game:started or question:new has carried its view, and
\* a team is there to answer on a live connection
C7_Witness ==
  \E i \in 1..Len(games) :
    /\ games[i].state = "question"
    /\ HasCurrent(games[i])
    /\ Len(games[i].teams) > 0
    /\ connected # {}
    /\ ~crashed

(***************************************************************************)
(* C8.  Teams join only in lobby: team:join for a session that is not in   *)
(* lobby only replies 'Game already started' (no team added, no            *)
(* team:joined, no room joined), and no event makes the team set of a      *)
(* session that has left lobby grow.                                       *)
(***************************************************************************)
NoLateTeam(e) ==
  \A i \in 1..Len(games) :
    (games[i].state # "lobby" /\ Survives(games[i], e.games))
    => TeamIds(GameGet(e.games, games[i].pin)) \subseteq TeamIds(games[i])

C8_JoinOnlyInLobby ==
  /\ \A s \in connected, p \in Pins, n \in TeamNames :
       (GameHas(games, p) /\ GameGet(games, p).state # "lobby")
       => OnTeamJoin(s, p, n)
            = Reply(s, "team:join", Failure("Game already started"))
  /\ AllEventEffects(NoLateTeam)

\* a started session with a team in it, and a connection that could ask to
\* join it
C8_Witness ==
  \E i \in 1..Len(games), s \in connected :
    /\ games[i].state = "question"
    /\ Len(games[i].teams) > 0
    /\ ~crashed
    /\ ~Succeeds(OnTeamJoin(s, games[i].pin, "Wolves"))

(***************************************************************************)
(* C9.  host:start-game succeeds only on a lobby session with a question;  *)
(* on success the session is in state question on cursor 0 and             *)
(* game:started carries the public view of question 0; received in state   *)
(* question, answer-reveal or ended it changes neither cursor nor state.   *)
(***************************************************************************)
C9_StartOnlyFromLobby ==
  \A s \in connected, p \in Pins :
    GameHas(games, p) =>
      LET g == GameGet(games, p)
          e == OnHostStartGame(s, p)
          after == GameGet(e.games, p)
      IN  /\ Succeeds(e) =>
                /\ g.state = "lobby"
                /\ Len(g.questions) > 0
                /\ after.state = "question"
                /\ after.currentQuestionIndex = 0
                /\ e.out[1] = Emit(rooms, <<"game", p>>, "game:started",
                                   [question |->
                                      PublicView(g.questions[1], 0,
                                                 Len(g.questions))])
          /\ g.state \in {"question", "answer-reveal", "ended"} =>
                /\ after.currentQuestionIndex = g.currentQuestionIndex
                /\ after.state = g.state

(***************************************************************************)
(* C10.  host:start-game on a session without questions only replies the   *)
(* error 'No questions added': state, cursor and teams stay as they are    *)
(* and nothing is broadcast.                                               *)
(***************************************************************************)
C10_StartWithoutQuestionsFails ==
  \A s \in connected, p \in Pins :
    (GameHas(games, p) /\ Len(GameGet(games, p).questions) = 0)
    => OnHostStartGame(s, p)
         = Reply(s, "host:start-game", Failure("No questions added"))

\* a lobby session with a team and no question, and a connection to ask
\* for the start
C10_Witness ==
  \E i \in 1..Len(games), s \in connected :
    /\ games[i].state = "lobby"
    /\ Len(games[i].questions) = 0
    /\ Len(games[i].teams) > 0
    /\ ~crashed
    /\ ~Succeeds(OnHostStartGame(s, games[i].pin))

(***************************************************************************)
(* C11.  The state of a registered session changes only along the edges    *)
(* lobby -> question, question -> answer-reveal, question -> question,     *)
(* answer-reveal -> question, question -> ended and answer-reveal ->       *)
(* ended: every step that keeps a session in the registry either leaves    *)
(* its state alone or follows one of these edges.                          *)
(***************************************************************************)
DiagramEdges ==
  { <<"lobby", "question">>, <<"question", "answer-reveal">>,
    <<"question", "question">>, <<"answer-reveal", "question">>,
    <<"question", "ended">>, <<"answer-reveal", "ended">> }

C11_OnlyDiagramEdges ==
  [][\A i \in 1..Len(games) :
       Survives(games[i], games')
       => LET after == GameGet(games', games[i].pin)
          IN  \/ after.state = games[i].state
              \/ <<games[i].state, after.state>> \in DiagramEdges]_vars

(***************************************************************************)
(* C12.  host:next-question with the cursor on the last question ends the  *)
(* session: state ended, game:ended to game-<pin> with the final           *)
(* leaderboard and the number of questions, reply ended true.  With a      *)
(* later question it moves the session to state question on the next       *)
(* index and broadcasts question:new with that question's public view, in  *)
(* state question and in state answer-reveal alike.                        *)
(***************************************************************************)
C12_NextQuestionAdvancesOrEnds ==
  \A s \in connected, p \in Pins :
    GameHas(games, p) =>
      LET g == GameGet(games, p)
          e == OnHostNextQuestion(s, p)
          after == GameGet(e.games, p)
          next == g.currentQuestionIndex + 1
      IN  /\ (g.currentQuestionIndex >= 0 /\ next = Len(g.questions)) =>
                /\ after.state = "ended"
                /\ e.out
                     = << Emit(rooms, <<"game", p>>, "game:ended",
                               [finalLeaderboard |-> getLeaderboard(g),
                                totalQuestions |-> Len(g.questions)]),
                          Ack(s, "host:next-question",
                              [success |-> TRUE, ended |-> TRUE]) >>
          /\ next < Len(g.questions) =>
                /\ after.state = "question"
                /\ after.currentQuestionIndex = next
                /\ e.out[1]
                     = Emit(rooms, <<"game", p>>, "question:new",
                            [question |->
                               PublicView(g.questions[next + 1], next,
                                          Len(g.questions))])
                /\ Succeeds(e)

\* a game of two questions has been played to its end by a team that
\* scored, and the host can ask for the next question once more
C12_Witness ==
  \E i \in 1..Len(games) :
    /\ games[i].state = "ended"
    /\ Len(games[i].questions) = 2
    /\ games[i].currentQuestionIndex = 2
    /\ \E j \in 1..Len(games[i].teams) : games[i].teams[j].score > 0
    /\ connected # {}

(***************************************************************************)
(* C13.  host:reveal-answer on a session in lobby or ended fails: the      *)
(* originator gets a reply with success false, the registry is left as it  *)
(* was and no answer:revealed is broadcast.                                *)
(***************************************************************************)
C13_RevealFailsOutsidePlay ==
  \A s \in connected, p \in Pins :
    (GameHas(games, p) /\ GameGet(games, p).state \in {"lobby", "ended"}) =>
      LET e == OnHostRevealAnswer(s, p)
      IN  /\ ~e.threw
          /\ Len(e.out) = 1
          /\ e.out[1].kind = "ack"
          /\ ~e.out[1].data.success
          /\ e.games = games

(***************************************************************************)
(* C14.  Every event that carries a callback gets exactly one reply, sent  *)
(* to its originator, whatever the state of the session: no exception      *)
(* leaves a handler; and a handler that replies with a failure has left    *)
(* the registry and the rooms exactly as they were.                        *)
(***************************************************************************)
RepliesOnce(e, socket) ==
  /\ ~e.threw
  /\ Cardinality({k \in 1..Len(e.out) : e.out[k].kind = "ack"}) = 1
  /\ \A k \in 1..Len(e.out) : e.out[k].kind = "ack" => e.out[k].to = {socket}
  /\ ~Succeeds(e) => (e.games = games /\ e.rooms = rooms)

C14_OneReplyNoPartialFailure ==
  \A s \in connected, p \in Pins :
    /\ \A h \in HostNames : RepliesOnce(OnHostCreateGame(s, h, p), s)
    /\ \A n \in TeamNames : RepliesOnce(OnTeamJoin(s, p, n), s)
    /\ \A q \in QuestionInputs : RepliesOnce(OnHostAddQuestion(s, p, q), s)
    /\ RepliesOnce(OnHostStartGame(s, p), s)
    /\ RepliesOnce(OnHostNextQuestion(s, p), s)
    /\ \A t \in 0..uuid, a \in AnswerInputs :
         RepliesOnce(OnTeamSubmitAnswer(s, p, t, a), s)
    /\ RepliesOnce(OnHostRevealAnswer(s, p), s)
    /\ RepliesOnce(OnGetLeaderboard(s, p), s)

(***************************************************************************)
(* C15.  team:submit-answer is admitted only in state question: for a      *)
(* session in lobby, answer-reveal or ended its whole effect is the reply  *)
(* 'Not accepting answers' (no answer appended, no score changed, no       *)
(* answer:submitted), and a submission that succeeds found the session in  *)
(* state question.                                                         *)
(***************************************************************************)
C15_SubmitOnlyInQuestion ==
  \A s \in connected, p \in Pins, t \in 0..uuid, a \in AnswerInputs :
    GameHas(games, p) =>
      LET e == OnTeamSubmitAnswer(s, p, t, a)
      IN  /\ GameGet(games, p).state # "question"
             => e = Reply(s, "team:submit-answer",
                          Failure("Not accepting answers"))
          /\ Succeeds(e) => GameGet(games, p).state = "question"

\* the answer of a question has been revealed to a team that had answered
\* it, and the team's connection can still send a submission
C15_Witness ==
  \E i \in 1..Len(games) : \E j \in 1..Len(games[i].teams) :
    /\ games[i].state = "answer-reveal"
    /\ Len(games[i].teams[j].answers) > 0
    /\ games[i].teams[j].socketId \in connected
    /\ ~crashed
    /\ ~Succeeds(OnTeamSubmitAnswer(games[i].teams[j].socketId, games[i].pin,
                                    games[i].teams[j].id, 1))

(***************************************************************************)
(* C16.  A PIN leaves the registry only in two ways: the cleanup sweep     *)
(* finds its session in state ended, or the disconnect of a connection     *)
(* that owns a team of the session removes the last team while the session *)
(* is in lobby.  In particular the disconnect of a connection that owns no *)
(* team of a lobby session does not remove that session.  (The replacement *)
(* of a session under its own PIN is the matter of C1.)                    *)
(***************************************************************************)
OwnsTeam(socket, g) == \E j \in 1..Len(g.teams) : g.teams[j].socketId = socket

C16_EvictionOnlyTwoWays ==
  [][\A i \in 1..Len(games) :
       ~GameHas(games', games[i].pin)
       => \/ /\ games[i].state = "ended"
             /\ games' = OnCleanup.games
          \/ /\ games[i].state = "lobby"
             /\ \E s \in connected :
                  /\ OwnsTeam(s, games[i])
                  /\ games' = OnDisconnect(s).games
                  /\ connected' = connected \ {s}]_vars

(***************************************************************************)
(* C17.  When the connection of the only team of a lobby session           *)
(* disconnects, team:left with totalTeams 0 is sent to host-<pin> and the  *)
(* session is out of the registry in the same step; and as long as a PIN   *)
(* names no session, every event naming it only replies 'Game not found'.  *)
(***************************************************************************)
OnlyTeamOf(g, socket) ==
  g.state = "lobby" /\ Len(g.teams) = 1 /\ g.teams[1].socketId = socket

NotFound(e, socket, event) == e = Reply(socket, event, Failure("Game not found"))

C17_LastTeamLeavesLobby ==
  /\ \A i \in 1..Len(games), s \in connected :
       OnlyTeamOf(games[i], s) =>
         LET e == OnDisconnect(s)
             team == games[i].teams[1]
         IN  /\ \E k \in 1..Len(e.out) :
                  e.out[k] = Emit(e.rooms, <<"host", games[i].pin>>, "team:left",
                                  [teamId |-> team.id, teamName |-> team.name,
                                   totalTeams |-> 0])
             /\ ~GameHas(e.games, games[i].pin)
  /\ \A s \in connected, p \in Pins :
       ~GameHas(games, p) =>
         /\ \A n \in TeamNames : NotFound(OnTeamJoin(s, p, n), s, "team:join")
         /\ \A q \in QuestionInputs :
              NotFound(OnHostAddQuestion(s, p, q), s, "host:add-question")
         /\ NotFound(OnHostStartGame(s, p), s, "host:start-game")
         /\ NotFound(OnHostNextQuestion(s, p), s, "host:next-question")
         /\ \A t \in 0..uuid, a \in AnswerInputs :
              NotFound(OnTeamSubmitAnswer(s, p, t, a), s, "team:submit-answer")
         /\ NotFound(OnHostRevealAnswer(s, p), s, "host:reveal-answer")
         /\ NotFound(OnGetLeaderboard(s, p), s, "game:get-leaderboard")

\* the only team of a lobby session is on a connection other than the
\* host's, the host is in its room, and the team's disconnect takes the PIN
\* out of the registry
C17_Witness ==
  \E i \in 1..Len(games), s \in connected :
    /\ OnlyTeamOf(games[i], s)
    /\ rooms[<<"host", games[i].pin>>] \ {s} # {}
    /\ ~crashed
    /\ ~GameHas(OnDisconnect(s).games, games[i].pin)
    /\ Len(OnDisconnect(s).out) = 1

(***************************************************************************)
(* C18.  A session that has left lobby survives the disconnect of a team's *)
(* connection with the scores retained: it is still registered, and the    *)
(* points the team had earned are still in the leaderboard of the session  *)
(* (the one reveal-answer, get-leaderboard and game:ended return).         *)
(***************************************************************************)
C18_ScoresSurviveDisconnect ==
  \A i \in 1..Len(games), s \in connected :
    games[i].state # "lobby" =>
      LET e == OnDisconnect(s)
      IN  /\ Survives(games[i], e.games)
          /\ \A j \in 1..Len(games[i].teams) :
               (games[i].teams[j].socketId = s /\ games[i].teams[j].score > 0)
               => \E k \in 1..Len(getLeaderboard(GameGet(e.games, games[i].pin))) :
                    LET row == getLeaderboard(GameGet(e.games, games[i].pin))[k]
                    IN  /\ row.name = games[i].teams[j].name
                        /\ row.score = games[i].teams[j].score

(***************************************************************************)
(* C19.  Broadcast before acknowledgement: in the handlers of team:join,   *)
(* host:start-game, host:next-question, team:submit-answer and             *)
(* host:reveal-answer the reply is the last message sent, a successful     *)
(* event has sent its broadcast before it, and an event that replies with  *)
(* an error sends no broadcast.                                            *)
(***************************************************************************)
BroadcastThenAck(e) ==
  /\ \A k \in 1..Len(e.out) :
       e.out[k].kind = (IF k = Len(e.out) THEN "ack" ELSE "emit")
  /\ Succeeds(e) => Len(e.out) >= 2
  /\ ~Succeeds(e) => Len(e.out) <= 1

C19_BroadcastBeforeAck ==
  \A s \in connected, p \in Pins :
    /\ \A n \in TeamNames : BroadcastThenAck(OnTeamJoin(s, p, n))
    /\ BroadcastThenAck(OnHostStartGame(s, p))
    /\ BroadcastThenAck(OnHostNextQuestion(s, p))
    /\ \A t \in 0..uuid, a \in AnswerInputs :
         BroadcastThenAck(OnTeamSubmitAnswer(s, p, t, a))
    /\ BroadcastThenAck(OnHostRevealAnswer(s, p))

\* a question is on and a team is there: submit-answer, reveal-answer and
\* next-question succeed with a broadcast to a room that has a member, and
\* team:join fails
C19_Witness ==
  \E i \in 1..Len(games), s \in connected :
    LET g == games[i]
    IN  /\ g.state = "question"
        /\ Len(g.teams) > 0
        /\ ~crashed
        /\ Succeeds(OnTeamSubmitAnswer(s, g.pin, g.teams[1].id, 1))
        /\ Succeeds(OnHostRevealAnswer(s, g.pin))
        /\ OnHostRevealAnswer(s, g.pin).out[1].to # {}
        /\ Succeeds(OnHostNextQuestion(s, g.pin))
        /\ ~Succeeds(OnTeamJoin(s, g.pin, "Wolves"))

(***************************************************************************)
(* C20.  Room membership: for every registered session with PIN p the room *)
(* host-<p> holds only the connection that created the session, hence at   *)
(* most one connection, and every member of game-<p> is that host or the   *)
(* connection of a team of the session, also after sessions have been      *)
(* evicted and their PIN assigned again.  (team:joined and                 *)
(* answer:submitted go to the members of host-<p>.)                        *)
(***************************************************************************)
TeamSockets(g) == {g.teams[j].socketId : j \in 1..Len(g.teams)}

C20_RoomsHoldOnlyTheSession ==
  \A i \in 1..Len(games) :
    LET p == games[i].pin
    IN  /\ Cardinality(rooms[<<"host", p>>]) <= 1
        /\ rooms[<<"game", p>>]
             \subseteq rooms[<<"host", p>>] \cup TeamSockets(games[i])

(***************************************************************************)
(* C21.  Unknown PIN: each of team:join, host:add-question,                *)
(* host:start-game, host:next-question, team:submit-answer,                *)
(* host:reveal-answer and game:get-leaderboard, sent with a PIN that is    *)
(* not in the registry, sends one message, the reply                       *)
(* {success: false, error: 'Game not found'} to its originator, and leaves *)
(* registry, rooms and uuid source as they were.                           *)
(***************************************************************************)
OnlyGameNotFound(e, socket) ==
  /\ e.games = games /\ e.rooms = rooms /\ e.uuid = uuid /\ ~e.threw
  /\ Len(e.out) = 1
  /\ e.out[1].kind = "ack" /\ e.out[1].to = {socket}
  /\ e.out[1].data = [success |-> FALSE, error |-> "Game not found"]

C21_UnknownPin ==
  \A s \in connected, p \in Pins :
    ~GameHas(games, p) =>
      /\ \A n \in TeamNames : OnlyGameNotFound(OnTeamJoin(s, p, n), s)
      /\ \A q \in QuestionInputs : OnlyGameNotFound(OnHostAddQuestion(s, p, q), s)
      /\ OnlyGameNotFound(OnHostStartGame(s, p), s)
      /\ OnlyGameNotFound(OnHostNextQuestion(s, p), s)
      /\ \A t \in 0..uuid, a \in AnswerInputs :
           OnlyGameNotFound(OnTeamSubmitAnswer(s, p, t, a), s)
      /\ OnlyGameNotFound(OnHostRevealAnswer(s, p), s)
      /\ OnlyGameNotFound(OnGetLeaderboard(s, p), s)

\* one PIN names a session with a team in it, the other PIN names none, and
\* a connection is there to send events with the other PIN
C21_Witness ==
  \E p, q \in Pins, s \in connected :
    /\ GameHas(games, p) /\ Len(GameGet(games, p).teams) > 0
    /\ ~GameHas(games, q)
    /\ ~crashed
    /\ ~Succeeds(OnGetLeaderboard(s, q))

(***************************************************************************)
(* C22.  The leaderboard of a session has exactly one entry                *)
(* {name, score, answersCount} per team of the session, in descending      *)
(* order of score, teams of equal score in the order in which they joined. *)
(***************************************************************************)
Row(team) ==
  [name |-> team.name, score |-> team.score, answersCount |-> Len(team.answers)]

IsLeaderboardOf(lb, teams) ==
  /\ Len(lb) = Len(teams)
  /\ \A i \in 1..(Len(lb) - 1) : lb[i].score >= lb[i + 1].score
  /\ \E f \in [1..Len(teams) -> 1..Len(teams)] :
       /\ \A j, k \in 1..Len(teams) : j # k => f[j] # f[k]
       /\ \A j \in 1..Len(teams) : lb[f[j]] = Row(teams[j])
       /\ \A j, k \in 1..Len(teams) :
            (j < k /\ teams[j].score = teams[k].score) => f[j] < f[k]

C22_LeaderboardOrder ==
  \A i \in 1..Len(games) :
    /\ IsLeaderboardOf(getLeaderboard(games[i]), games[i].teams)
    /\ \A s \in connected :
         OnGetLeaderboard(s, games[i].pin).out[1].data.leaderboard
           = getLeaderboard(games[i])

\* the team that joined second has overtaken the first: the leaderboard is
\* not in join order
C22_Witness ==
  \E i \in 1..Len(games) :
    /\ Len(games[i].teams) = 2
    /\ games[i].teams[1].name # games[i].teams[2].name
    /\ games[i].teams[1].score < games[i].teams[2].score
    /\ getLeaderboard(games[i])[1].name = games[i].teams[2].name
    /\ connected # {}

(***************************************************************************)
(* C23.  Reveal is idempotent: host:reveal-answer on a session in state    *)
(* question or answer-reveal replies and broadcasts the correct index of   *)
(* the current question and the leaderboard and leaves the session in      *)
(* answer-reveal with nothing else changed, so that the next               *)
(* host:reveal-answer has the same payload; in answer-reveal it changes    *)
(* nothing at all.  (Stated for the states in which the process is up.)    *)
(***************************************************************************)
C23_RevealIdempotent ==
  \A s \in connected, p \in Pins :
    (~crashed /\ GameHas(games, p)
       /\ GameGet(games, p).state \in {"question", "answer-reveal"}) =>
      LET g == GameGet(games, p)
          e == OnHostRevealAnswer(s, p)
          after == GameGet(e.games, p)
          shown == [correctAnswer |-> CurrentQuestion(g).correctAnswer,
                    leaderboard |-> getLeaderboard(g)]
      IN  /\ ~e.threw
          /\ e.games = GameSet(games, p, [g EXCEPT !.state = "answer-reveal"])
          /\ g.state = "answer-reveal" => e.games = games
          /\ e.out = << Emit(rooms, <<"game", p>>, "answer:revealed", shown),
                        Ack(s, "host:reveal-answer",
                            [success |-> TRUE,
                             correctAnswer |-> shown.correctAnswer,
                             leaderboard |-> shown.leaderboard]) >>
          /\ RevealResult(after) = shown

C25_UnknownTeamRejected ==
  \A s \in connected, p \in Pins, t \in 0..uuid, a \in AnswerInputs :
    (GameHas(games, p) /\ t \notin TeamIds(GameGet(games, p))) =>
      LET e == OnTeamSubmitAnswer(s, p, t, a)
      IN  /\ e.games = games
          /\ ~e.threw
          /\ Len(e.out) = 1
          /\ e.out[1].kind = "ack"
          /\ ~e.out[1].data.success

\* a question is on, a team is in the session, and a submission names an
\* id that is no team of the session: it is turned down as an invalid team
C25_Witness ==
  \E i \in 1..Len(games), s \in connected, t \in 1..uuid :
    /\ games[i].state = "question"
    /\ HasCurrent(games[i])
    /\ Len(games[i].teams) > 0
    /\ t \notin TeamIds(games[i])
    /\ ~crashed
    /\ OnTeamSubmitAnswer(s, games[i].pin, t, 1)
         = Reply(s, "team:submit-answer", Failure("Invalid team or question"))

(***************************************************************************)
(* C26.  The time bonus is at most 50: for every question that             *)
(* host:add-question has accepted and every elapsed time, a logged answer  *)
(* carries 0 points when incorrect and between 100 and 150 points when     *)
(* correct, and every score is non-negative.                               *)
(***************************************************************************)
C26_BonusAtMostFifty ==
  \A i \in 1..Len(games) : \A j \in 1..Len(games[i].teams) :
    /\ games[i].teams[j].score >= 0
    /\ \A k \in 1..Len(games[i].teams[j].answers) :
         LET a == games[i].teams[j].answers[k]
         IN  IF a.isCorrect
             THEN a.points >= BasePoints /\ a.points <= BasePoints + BonusPoints
             ELSE a.points = 0

(***************************************************************************)
(* C27.  A team's answer log holds at most one answer per question, so it  *)
(* is never longer than the number of questions activated so far.          *)
(***************************************************************************)
C27_OneAnswerPerQuestion ==
  \A i \in 1..Len(games) : \A j \in 1..Len(games[i].teams) :
    LET answers == games[i].teams[j].answers
    IN  /\ \A k, l \in 1..Len(answers) :
             k # l => answers[k].questionId # answers[l].questionId
        /\ Len(answers) <= games[i].currentQuestionIndex + 1

(***************************************************************************)
(* C28.  A team's score is the sum of the points of the answers in its     *)
(* answer log.                                                             *)
(***************************************************************************)
RECURSIVE SumPoints(_)
SumPoints(answers) ==
  IF Len(answers) = 0 THEN 0 ELSE Head(answers).points + SumPoints(Tail(answers))

C28_ScoreIsSumOfPoints ==
  \A i \in 1..Len(games) : \A j \in 1..Len(games[i].teams) :
    games[i].teams[j].score = SumPoints(games[i].teams[j].answers)

\* a team has two answers in its log, one of them with a time bonus
C28_Witness ==
  \E i \in 1..Len(games) : \E j \in 1..Len(games[i].teams) :
    /\ Len(games[i].teams[j].answers) = 2
    /\ games[i].teams[j].score > BasePoints
    /\ \E k \in 1..2 : games[i].teams[j].answers[k].points = 0

(***************************************************************************)
(* C29.  Handlers of one session are atomic and totally ordered: the       *)
(* leaderboard that answer:revealed (or game:ended) carries is the one of  *)
(* the submissions handled so far, every team's score being the sum of the *)
(* points of its own logged answers; a submission handled after the reveal *)
(* is turned down without changing anything; and an accepted submission    *)
(* adds one answer to the log of the team it names and leaves every other  *)
(* team as it was.                                                         *)
(***************************************************************************)
OwnScores(g) ==
  SortByScore([j \in 1..Len(g.teams) |->
     [name |-> g.teams[j].name, score |-> SumPoints(g.teams[j].answers),
      answersCount |-> Len(g.teams[j].answers)]])

C29_HandlersAtomic ==
  \A s \in connected, p \in Pins :
    (~crashed /\ GameHas(games, p)) =>
      LET g == GameGet(games, p)
          reveal == OnHostRevealAnswer(s, p)
          next == OnHostNextQuestion(s, p)
      IN  /\ Succeeds(reveal) => reveal.out[1].data.leaderboard = OwnScores(g)
          /\ next.out[1].event = "game:ended"
             => next.out[1].data.finalLeaderboard = OwnScores(g)
          /\ \A t \in 0..uuid, a \in AnswerInputs :
               LET e == OnTeamSubmitAnswer(s, p, t, a)
                   after == GameGet(e.games, p)
               IN  /\ g.state = "answer-reveal" => (~Succeeds(e) /\ e.games = games)
                   /\ Succeeds(e) =>
                        /\ Len(after.teams) = Len(g.teams)
                        /\ \A j \in 1..Len(g.teams) :
                             IF g.teams[j].id = t
                             THEN /\ Len(after.teams[j].answers)
                                       = Len(g.teams[j].answers) + 1
                                  /\ SubSeq(after.teams[j].answers, 1,
                                            Len(g.teams[j].answers))
                                       = g.teams[j].answers
                             ELSE after.teams[j] = g.teams[j]

\* two teams have answered the question, one right and one wrong, and the
\* host has revealed the answer
C29_Witness ==
  \E i \in 1..Len(games) :
    /\ games[i].state = "answer-reveal"
    /\ Len(games[i].teams) = 2
    /\ Len(games[i].teams[1].answers) > 0
    /\ Len(games[i].teams[2].answers) > 0
    /\ games[i].teams[1].score # games[i].teams[2].score
    /\ connected # {}
    /\ ~crashed

(***************************************************************************)
(* C30.  On the disconnect of connection c every team owned by c is        *)
(* removed from every session, so that no team of a registered session     *)
(* refers to c afterwards; the teams of other connections stay as they     *)
(* are, in their order; and for each removed team one team:left goes to    *)
(* host-<pin> whose totalTeams is the number of teams the session has once *)
(* that team is removed.                                                   *)
(***************************************************************************)
\* the teams of g left when the j-th has just been removed on c's disconnect
Remaining(g, c, j) ==
  Cardinality({l \in 1..Len(g.teams) :
                 g.teams[l].socketId # c \/ l > j})

C30_DisconnectRemovesOwnTeams ==
  \A c \in connected :
    LET e == OnDisconnect(c)
        left == {k \in 1..Len(e.out) : e.out[k].event = "team:left"}
    IN  /\ \A k \in 1..Len(e.games) : ~OwnsTeam(c, e.games[k])
        /\ \A i \in 1..Len(games) :
             /\ Survives(games[i], e.games)
                => GameGet(e.games, games[i].pin)
                     = [games[i] EXCEPT
                          !.teams = SelectSeq(@, LAMBDA t : t.socketId # c)]
             /\ \A j \in 1..Len(games[i].teams) :
                  games[i].teams[j].socketId = c
                  => \E k \in left :
                       /\ e.out[k].room = <<"host", games[i].pin>>
                       /\ e.out[k].to = rooms[<<"host", games[i].pin>>] \ {c}
                       /\ e.out[k].data
                            = [teamId |-> games[i].teams[j].id,
                               teamName |-> games[i].teams[j].name,
                               totalTeams |-> Remaining(games[i], c, j)]
        /\ Cardinality(left) = Len(e.out)
        /\ Len(e.out)
             = Cardinality({<<i, j>> \in (1..Len(games)) \X (1..uuid) :
                              j <= Len(games[i].teams)
                                /\ games[i].teams[j].socketId = c})

\* a session has two teams on two live connections, and the host is on one
\* of them: the disconnect of the other removes one team and keeps one
C30_Witness ==
  \E i \in 1..Len(games), c, d \in connected :
    /\ c # d
    /\ Len(games[i].teams) = 2
    /\ games[i].teams[1].socketId = c
    /\ games[i].teams[2].socketId = d
    /\ d \in rooms[<<"host", games[i].pin>>]
    /\ ~crashed
    /\ Len(OnDisconnect(c).out) = 1
    /\ Len(GameGet(OnDisconnect(c).games, games[i].pin).teams) = 1

(***************************************************************************)
(* C31.  host:add-question appends exactly one question at the end of the  *)
(* session's list, in any state, replies with totalQuestions equal to the  *)
(* new length, and leaves state, cursor, activation time, teams, scores    *)
(* and the questions added before as they were.                            *)
(***************************************************************************)
C31_AddQuestionAppends ==
  \A s \in connected, p \in Pins,
     q \in QuestionInputs \cup SignedQuestionInputs :
    GameHas(games, p) =>
      LET g == GameGet(games, p)
          e == OnHostAddQuestion(s, p, q)
          after == GameGet(e.games, p)
          added == after.questions[Len(after.questions)]
      IN  /\ Len(e.games) = Len(games)
          /\ \A i \in 1..Len(games) : games[i].pin # p => e.games[i] = games[i]
          /\ Len(after.questions) = Len(g.questions) + 1
          /\ SubSeq(after.questions, 1, Len(g.questions)) = g.questions
          /\ added.text = q.text /\ added.options = q.options
          /\ added.correctAnswer = q.correctAnswer
          /\ [after EXCEPT !.questions = g.questions] = g
          /\ e.rooms = rooms
          /\ e.out = << Ack(s, "host:add-question",
                            [success |-> TRUE,
                             totalQuestions |-> Len(g.questions) + 1]) >>

\* a second question is in the list while the first one is being played by
\* a team that has scored
C31_Witness ==
  \E i \in 1..Len(games) :
    /\ games[i].state = "question"
    /\ games[i].currentQuestionIndex = 0
    /\ Len(games[i].questions) = 2
    /\ \E j \in 1..Len(games[i].teams) : games[i].teams[j].score > 0
    /\ connected # {}
    /\ ~crashed

(***************************************************************************)
(* C32.  Every session that reaches state ended is eventually out of the   *)
(* registry, given that the cleanup sweep keeps running, whatever events   *)
(* the clients send for its PIN.  (The registry of a process that has died *)
(* is gone with it.)                                                       *)
(***************************************************************************)
Registered(p, id) == GameHas(games, p) /\ GameGet(games, p).id = id

C32_EndedEventuallyRemoved ==
  \A p \in Pins, id \in 1..MaxUuid :
    (Registered(p, id) /\ GameGet(games, p).state = "ended")
      ~> (~Registered(p, id) \/ crashed)

(***************************************************************************)
(* C33.  Removing a team is idempotent: removeTeam for an id that is not   *)
(* in the session changes nothing, and removing a team twice gives what    *)
(* removing it once gives.                                                 *)
(***************************************************************************)
C33_RemoveTeamIdempotent ==
  \A i \in 1..Len(games), t \in 0..uuid :
    /\ t \notin TeamIds(games[i]) => removeTeam(games[i], t) = games[i]
    /\ removeTeam(removeTeam(games[i], t), t) = removeTeam(games[i], t)
    /\ TeamIds(removeTeam(games[i], t)) = TeamIds(games[i]) \ {t}

\* a session has two teams: removing one of them leaves the other, and
\* some id of the run is no team of the session
C33_Witness ==
  \E i \in 1..Len(games), t \in 1..uuid :
    /\ Len(games[i].teams) = 2
    /\ t \notin TeamIds(games[i])
    /\ Len(removeTeam(games[i], games[i].teams[1].id).teams) = 1

(***************************************************************************)
(* C34.  game:get-leaderboard is read-only and deterministic: its whole    *)
(* effect is one reply, the same for every caller, whose leaderboard is    *)
(* computed from the teams of the session alone; registry and rooms stay   *)
(* as they are, so a second call without a submission, join or disconnect  *)
(* in between returns the same leaderboard.                                *)
(***************************************************************************)
C34_LeaderboardReadOnly ==
  \A s \in connected, p \in Pins :
    GameHas(games, p) =>
      LET e == OnGetLeaderboard(s, p)
          shown == getLeaderboard([teams |-> GameGet(games, p).teams])
      IN  /\ e.games = games /\ e.rooms = rooms /\ e.uuid = uuid /\ ~e.threw
          /\ e.out = << Ack(s, "game:get-leaderboard",
                            [success |-> TRUE, leaderboard |-> shown]) >>
          /\ IsLeaderboardOf(shown, GameGet(games, p).teams)

\* a team with points is in a session that is being played, and a
\* connection is there to ask for the leaderboard
C34_Witness ==
  \E i \in 1..Len(games), s \in connected :
    /\ games[i].state \in {"question", "answer-reveal"}
    /\ \E j \in 1..Len(games[i].teams) : games[i].teams[j].score > 0
    /\ ~crashed
    /\ Succeeds(OnGetLeaderboard(s, games[i].pin))

(***************************************************************************)
(* C35.  The cursor c of a registered session satisfies                    *)
(* -1 <= c <= number of questions, and c equals the number of questions    *)
(* exactly when the session is ended; and no step makes the cursor of a    *)
(* session smaller.                                                        *)
(***************************************************************************)
CursorInRange ==
  \A i \in 1..Len(games) :
    /\ NoIndex <= games[i].currentQuestionIndex
    /\ games[i].currentQuestionIndex <= Len(games[i].questions)
    /\ games[i].currentQuestionIndex = Len(games[i].questions)
         <=> games[i].state = "ended"

CursorGrows ==
  \A i \in 1..Len(games) :
    Survives(games[i], games')
    => GameGet(games', games[i].pin).currentQuestionIndex
         >= games[i].currentQuestionIndex

C35_CursorBounds == []CursorInRange /\ [][CursorGrows]_vars

(***************************************************************************)
(* C36.  Every game:started and question:new carries a question view that  *)
(* is not null, with questionNumber the cursor plus one, totalQuestions    *)
(* the length of the list, and 1 <= questionNumber <= totalQuestions; and  *)
(* a session in state question has its cursor on an existing question.     *)
(***************************************************************************)
CarriesQuestion(e, p) ==
  \A k \in 1..Len(e.out) :
    e.out[k].event \in {"game:started", "question:new"} =>
      LET view == e.out[k].data.question
          after == GameGet(e.games, p)
      IN  /\ view # null
          /\ view.questionNumber = after.currentQuestionIndex + 1
          /\ view.totalQuestions = Len(after.questions)
          /\ 1 <= view.questionNumber
          /\ view.questionNumber <= view.totalQuestions

C36_BroadcastHasQuestion ==
  /\ \A i \in 1..Len(games) : games[i].state = "question" => HasCurrent(games[i])
  /\ \A s \in connected, p \in Pins :
       (~crashed /\ GameHas(games, p)) =>
         /\ CarriesQuestion(OnHostStartGame(s, p), p)
         /\ CarriesQuestion(OnHostNextQuestion(s, p), p)

(***************************************************************************)
(* C37.  game:ended is the last game broadcast of a session: once a        *)
(* session is ended (only next-question's endGame sets that state, and it  *)
(* broadcasts game:ended), no event makes the server send game:started,    *)
(* question:new, answer:revealed or another game:ended for it.             *)
(***************************************************************************)
NoGameBroadcast(e) ==
  \A k \in 1..Len(e.out) :
    e.out[k].event \notin
      {"game:started", "question:new", "answer:revealed", "game:ended"}

C37_EndedIsLastBroadcast ==
  \A s \in connected, p \in Pins :
    (~crashed /\ GameHas(games, p) /\ GameGet(games, p).state = "ended") =>
      /\ NoGameBroadcast(OnHostStartGame(s, p))
      /\ NoGameBroadcast(OnHostNextQuestion(s, p))
      /\ NoGameBroadcast(OnHostRevealAnswer(s, p))

(***************************************************************************)
(* C38.  Session isolation: team:join, host:add-question, host:start-game, *)
(* host:next-question, team:submit-answer, host:reveal-answer and          *)
(* game:get-leaderboard naming PIN p leave every session registered under  *)
(* another PIN exactly as it was, change no room of another PIN and send   *)
(* no broadcast to a room of another PIN.                                  *)
(***************************************************************************)
Isolated(e, p) ==
  /\ \A i \in 1..Len(games) :
       games[i].pin # p
       => GameHas(e.games, games[i].pin)
            /\ GameGet(e.games, games[i].pin) = games[i]
  /\ \A r \in Rooms : r[2] # p => e.rooms[r] = rooms[r]
  /\ \A k \in 1..Len(e.out) : e.out[k].kind = "emit" => e.out[k].room[2] = p

====
